---------------------------- MODULE Spec2Model ----------------------------
(***************************************************************************)
(* The text editing core of collab_hub.                                    *)
(*                                                                         *)
(* Buffer (components_lib/src/editor/editor_core/buffer.rs) is a value     *)
(* { rope: Arc<Rope>, modified: bool, filename: Option<String> }.  The     *)
(* model keeps the Arc heap explicit: a Buffer holds the address of a rope *)
(* cell, clones share the cell, and an edit clones the rope, edits the     *)
(* clone and stores it in a fresh cell.  A rope is the sequence of its     *)
(* characters (ropey indexes by char), each character a one-letter string. *)
(*                                                                         *)
(* Two Buffer values are alive (an original and a snapshot of it, in       *)
(* either role); every method of the impl block is an action on one of     *)
(* them or an operator reading one of them.  Spec follows the calls made   *)
(* on one value with their arguments; SpecSnap follows calls on both       *)
(* values and the clones between them.                                     *)
(*                                                                         *)
(* The editor view (components_lib/src/text_editing/editor/editor_view.rs) *)
(* shows the app's Buffer in a textarea and keeps a CursorPosition; its    *)
(* event handlers are the actions of SpecView.  SyntaxHighlighter          *)
(* (apps/code_editor/src/highlighter.rs) and Theme::get_color              *)
(* (components_lib/src/core/themes.rs) are functions of their inputs:      *)
(* SpecHl and SpecTheme start from any input of a bounded set and make the *)
(* call.  SpecCalls keeps one highlighter and calls it again and again.    *)
(*                                                                         *)
(* The code editor (apps/code_editor/src/code_editor.rs) holds the buffer, *)
(* filename, language, dialog and theme signals and renders the view, the  *)
(* menu bar (components_lib/src/editor/panels/menus/menu.rs) and the       *)
(* new-file dialog: SpecApp follows the user's typing, Tabs, menu clicks   *)
(* and dialog answers.  SpecMenu follows an EditorMenuHandler on its own   *)
(* through any sequence of menu actions.                                   *)
(*                                                                         *)
(* The alphabet has "\n" as its only line break.  ropey can be built to    *)
(* recognise further line breaks (CR, CRLF, Unicode separators); which of  *)
(* them are enabled is decided by crate features outside the sources, so   *)
(* the model stays with the line feed that every configuration recognises. *)
(***************************************************************************)
EXTENDS Integers, Sequences, FiniteSets, TLC

\* ------------------------------------------------------------- bounds ---
\* Longest document, in characters.
MaxLen == 3
\* Longest document while two values are followed side by side.
SnapLen == 1
\* Width of the machine word (usize), scaled down.
WordBits == 3

RECURSIVE Pow2(_)
Pow2(n) == IF n = 0 THEN 1 ELSE 2 * Pow2(n - 1)

\* usize::MAX + 1 and usize::MAX of the scaled word.
WordMod == Pow2(WordBits)
MaxWord == WordMod - 1

LF == "\n"
Alphabet == {"a", LF}

RECURSIVE SeqsUpTo(_)
SeqsUpTo(n) ==
    IF n = 0 THEN {<<>>}
    ELSE LET shorter == SeqsUpTo(n - 1)
         IN  shorter \cup {Append(s, c) : s \in {t \in shorter : Len(t) = n - 1},
                                          c \in Alphabet}

\* The inputs the environment may pass.
Contents == SeqsUpTo(MaxLen)
SnapContents == SeqsUpTo(SnapLen)
\* Indices and counts: everything around the document's length, and the
\* largest word value.
Idx == (0 .. (MaxLen + 1)) \cup {MaxWord}

Handles == {1, 2}
Other(h) == 3 - h
\* Rope cells: one per live value and one more while an edit builds its result.
Addrs == 1 .. 3

\* Option<T>: None is the empty sequence, Some(x) is <<x>>.
None == <<>>
Some(x) == <<x>>
Filenames == {None, Some("f.rs")}

\* The content of a cell no Arc points to.
Free == <<"free">>

VARIABLES
    bufs,    \* bufs[h]: the Buffer value h, [rope, modified, filename]
    heap,    \* heap[a]: the rope in cell a, or Free
    ret,     \* what the latest call returned: "Self" (a constructor or clone),
             \* "Ok", "Err", or "Panic" when it did not return
    edited,  \* history: edited[h] iff an insert or delete on h has succeeded
             \* since h was constructed
    last,    \* history: the latest call, its arguments and what the values
             \* showed before it
    view,    \* the editor view: the textarea's caret, the cursor signal, the
             \* position last passed to on_cursor_move, the latest event
    hl,      \* a SyntaxHighlighter, the text given to it and what highlight
             \* returned
    th,      \* a Theme, the token class asked of it and what get_color
             \* returned
    sh,      \* a SyntaxHighlighter that lives across calls: its fields and
             \* the calls of highlight made on it so far, in order
    app,     \* the code editor application: its filename, language, dialog
             \* and theme signals, and history: the latest event, whether
             \* the document was edited since it was loaded or created
    menu     \* an EditorMenuHandler: its fields and history: the latest
             \* action given to it and the theme switch that action asked

vars == <<bufs, heap, ret, edited, last, view, hl, th, sh, app, menu>>

\* ----------------------------------------------------------- ropey ------
len_chars(r) == Len(r)

\* An insertion that ignores the index and appends.
rope_insert_append(r, char_idx, txt) == r \o txt

\* Rope::insert(char_idx, text), for char_idx <= len_chars.
rope_insert(r, char_idx, txt) ==
    SubSeq(r, 1, char_idx) \o txt \o SubSeq(r, char_idx + 1, Len(r))

\* A removal of start..=end.
rope_remove_inclusive(r, start, end) ==
    SubSeq(r, 1, start) \o SubSeq(r, end + 2, Len(r))

\* Rope::remove(start..end), for start <= end <= len_chars.
rope_remove(r, start, end) ==
    SubSeq(r, 1, start) \o SubSeq(r, end + 1, Len(r))

\* Rope::remove panics on a range whose start is greater than its end or
\* whose end is past the rope.
rope_remove_panics(r, start, end) == start > end \/ end > Len(r)

\* Number of line breaks in the first n characters of r.
RECURSIVE breaks_before(_, _)
breaks_before(r, n) ==
    IF n = 0 THEN 0
    ELSE breaks_before(r, n - 1) + (IF r[n] = LF THEN 1 ELSE 0)

\* A line count that leaves out an empty last line, as str::lines counts.
len_lines_no_empty_last(r) ==
    breaks_before(r, Len(r)) + (IF r # <<>> /\ r[Len(r)] # LF THEN 1 ELSE 0)

\* Rope::len_lines: the line breaks of the rope plus one.
len_lines(r) == breaks_before(r, Len(r)) + 1

\* Rope::line_to_char(line_idx): the char index at which line line_idx
\* starts; len_chars for line_idx = len_lines.
line_to_char(r, line_idx) ==
    IF line_idx = 0 THEN 0
    ELSE IF line_idx >= len_lines(r) THEN Len(r)
    ELSE CHOOSE i \in 1 .. Len(r) : r[i] = LF /\ breaks_before(r, i) = line_idx

\* Rope::line(line_idx): the slice from the start of the line to the start
\* of the next one, the line's own line break included.
rope_line(r, line_idx) ==
    SubSeq(r, line_to_char(r, line_idx) + 1, line_to_char(r, line_idx + 1))

\* ------------------------------------------------------ Arc and heap ----
\* *self.rope
Deref(b) == heap[b.rope]

\* Cells some value points to.
Referenced(bs) == {bs[h].rope : h \in Handles}

\* Arc::new: a cell that no Arc points to.
FreshCell == CHOOSE a \in Addrs :
                /\ a \notin Referenced(bufs)
                /\ \A c \in Addrs : c \notin Referenced(bufs) => a <= c

\* Dropping the last Arc of a cell frees it.
Collect(hp, bs) == [a \in Addrs |-> IF a \in Referenced(bs) THEN hp[a] ELSE Free]

\* -------------------------------------------------------- accessors -----
text(b) == Deref(b)
line_count(b) == len_lines(Deref(b))
\* A line lookup that also answers for the index line_count().
line_one_past(b, idx) ==
    IF idx <= len_lines(Deref(b)) THEN Some(rope_line(Deref(b), idx)) ELSE None

line(b, idx) ==
    IF idx < len_lines(Deref(b)) THEN Some(rope_line(Deref(b), idx)) ELSE None
filename(b) == b.filename
is_modified(b) == b.modified

\* What a caller can see of a value.
Observe(b) == [text |-> text(b), modified |-> is_modified(b), filename |-> filename(b)]

\* A panic ends the program.
Running == ret # "Panic"

\* ------------------------------------------------------ construction ----
\* The fields Buffer::new gives the value, its rope in cell a.
new_fields(a) == [rope |-> a, modified |-> FALSE, filename |-> None]

\* A load that drops the filename.
from_str_fields_unnamed(a, fname) == [rope |-> a, modified |-> FALSE, filename |-> None]

\* The fields Buffer::from_str gives the value, its rope in cell a.
from_str_fields(a, fname) == [rope |-> a, modified |-> FALSE, filename |-> fname]

\* h = Buffer::new()
new(h) ==
    /\ Running
    /\ bufs' = [bufs EXCEPT ![h] = new_fields(FreshCell)]
    /\ heap' = Collect([heap EXCEPT ![FreshCell] = <<>>], bufs')
    /\ ret' = "Self"
    /\ edited' = [edited EXCEPT ![h] = FALSE]

\* h = Buffer::from_str(content, fname)
from_str(h, content, fname) ==
    /\ Running
    /\ bufs' = [bufs EXCEPT ![h] = from_str_fields(FreshCell, fname)]
    /\ heap' = Collect([heap EXCEPT ![FreshCell] = content], bufs')
    /\ ret' = "Self"
    /\ edited' = [edited EXCEPT ![h] = FALSE]

\* The other value = bufs[src].clone(): the derived Clone copies the Arc,
\* not the rope.
clone(src) ==
    /\ Running
    /\ bufs' = [bufs EXCEPT ![Other(src)] = bufs[src]]
    /\ heap' = Collect(heap, bufs')
    /\ ret' = "Self"
    /\ edited' = [edited EXCEPT ![Other(src)] = edited[src]]

\* ------------------------------------------------------------ edits -----
\* usize addition as a build without overflow checks computes it.
wrapping_add(a, b) == (a + b) % WordMod

\* A bounds test that refuses the end of the document.
insert_in_bounds_strict(char_idx, r) == char_idx < len_chars(r)

\* The bounds test of insert.
insert_in_bounds(char_idx, r) == char_idx <= len_chars(r)

\* The bounds test of delete, on the sum the machine computed.
delete_in_bounds(end, r) == end <= len_chars(r)

\* An edit made in place, in the cell the receiver shares with its clones.
insert_cell_in_place(b) == b.rope

\* Arc::new(new_rope) in insert and in delete: the edited rope gets a cell
\* of its own.
insert_cell(b) == FreshCell
delete_cell(b) == FreshCell

\* The assignments of a successful insert, the new rope in cell a.
insert_fields(b, a) == [b EXCEPT !.rope = a, !.modified = TRUE]

\* A delete that forgets the flag.
delete_fields_keep_flag(b, a) == [b EXCEPT !.rope = a]

\* The assignments of a successful delete, the new rope in cell a.
delete_fields(b, a) == [b EXCEPT !.rope = a, !.modified = TRUE]

\* bufs[h].insert(char_idx, txt)
insert(h, char_idx, txt) ==
    /\ Running
    /\ IF insert_in_bounds(char_idx, Deref(bufs[h]))
       THEN LET new_rope == rope_insert(Deref(bufs[h]), char_idx, txt)
                a == insert_cell(bufs[h])
            IN  /\ bufs' = [bufs EXCEPT ![h] = insert_fields(@, a)]
                /\ heap' = Collect([heap EXCEPT ![a] = new_rope], bufs')
                /\ ret' = "Ok"
                /\ edited' = [edited EXCEPT ![h] = TRUE]
       ELSE /\ ret' = "Err"
            /\ UNCHANGED <<bufs, heap, edited>>

\* bufs[h].delete(char_idx, len).  The sum char_idx + len is a usize
\* addition: a build with overflow checks panics when it overflows, a build
\* without them goes on with the wrapped sum.
delete(h, char_idx, len) ==
    /\ Running
    /\ \E overflow_checks \in BOOLEAN :
         LET r == Deref(bufs[h])
             end == wrapping_add(char_idx, len)
         IN  IF overflow_checks /\ char_idx + len > MaxWord
             THEN /\ ret' = "Panic"
                  /\ UNCHANGED <<bufs, heap, edited>>
             ELSE IF delete_in_bounds(end, r)
             THEN IF rope_remove_panics(r, char_idx, end)
                  THEN /\ ret' = "Panic"
                       /\ UNCHANGED <<bufs, heap, edited>>
                  ELSE LET new_rope == rope_remove(r, char_idx, end)
                           a == delete_cell(bufs[h])
                       IN  /\ bufs' = [bufs EXCEPT ![h] = delete_fields(@, a)]
                           /\ heap' = Collect([heap EXCEPT ![a] = new_rope], bufs')
                           /\ ret' = "Ok"
                           /\ edited' = [edited EXCEPT ![h] = TRUE]
             ELSE /\ ret' = "Err"
                  /\ UNCHANGED <<bufs, heap, edited>>

\* ---------------------------------------------------------- history -----
NoObs == [text |-> <<>>, modified |-> FALSE, filename |-> None]

\* The call with its arguments and what its receiver showed before it.  rt
\* is the delete this call can undo or has undone: the text before that
\* delete, its offset and the characters it removed.
Record(op, h, idx, len, txt, fname, rt) ==
    last' = [op |-> op, who |-> h, idx |-> idx, len |-> len, text |-> txt,
             fname |-> fname, pre |-> Observe(bufs[h]), rt |-> rt,
             preOther |-> NoObs, shared |-> FALSE]

\* The call without its arguments, what the other value showed before it
\* and whether the two values shared their rope.
RecordSnap(op, h) ==
    last' = [op |-> op, who |-> h, idx |-> 0, len |-> 0, text |-> <<>>,
             fname |-> None, pre |-> NoObs, rt |-> None,
             preOther |-> Observe(bufs[Other(h)]),
             shared |-> (bufs[h].rope = bufs[Other(h)].rope)]

\* The delete(char_idx, len) being made, for the insert that may undo it.
Undo(h, char_idx, len) ==
    Some([orig |-> text(bufs[h]), at |-> char_idx,
          removed |-> SubSeq(text(bufs[h]), char_idx + 1, char_idx + len)])

\* Does insert(char_idx, txt) put back what the latest call, a successful
\* delete, removed?
Undoes(char_idx, txt) ==
    /\ last.op = "delete" /\ ret = "Ok"
    /\ last.rt[1].at = char_idx /\ last.rt[1].removed = txt

\* ------------------------------------------------------ editor view -----
\* text_editing/editor/editor_view.rs.  The app's buffer signal is the
\* Buffer value 1; the textarea shows its text.  The textarea's
\* selection_start counts UTF-16 units, str slices count UTF-8 bytes and
\* Buffer::insert counts chars, so the documents of the view have a
\* two-byte letter next to the one-byte ones.
Eacute == "U+00E9"
\* Longest text the user leaves in the textarea by typing or pasting.
ViewLen == 2
\* The Tab handler's "    ".
TabWidth == 4
Spaces == [i \in 1 .. TabWidth |-> " "]

ViewAlphabet == {"a", LF, Eacute}
RECURSIVE ViewSeqs(_)
ViewSeqs(n) ==
    IF n = 0 THEN {<<>>}
    ELSE LET shorter == ViewSeqs(n - 1)
         IN  shorter \cup {Append(s, c) : s \in {t \in shorter : Len(t) = n - 1},
                                          c \in ViewAlphabet}
ViewTexts == ViewSeqs(ViewLen)

\* char::len_utf8 and char::len_utf16 of the letters.
len_utf8(c) == IF c = Eacute THEN 2 ELSE 1
len_utf16(c) == 1

RECURSIVE str_len(_)
str_len(s) == IF s = <<>> THEN 0 ELSE len_utf8(Head(s)) + str_len(Tail(s))
RECURSIVE utf16_len(_)
utf16_len(s) == IF s = <<>> THEN 0 ELSE len_utf16(Head(s)) + utf16_len(Tail(s))

\* str::is_char_boundary(n): n bytes are a whole number of letters.
is_char_boundary(s, n) == \E k \in 0 .. Len(s) : str_len(SubSeq(s, 1, k)) = n
\* &s[..n] for a boundary n.
str_to(s, n) == SubSeq(s, 1, CHOOSE k \in 0 .. Len(s) : str_len(SubSeq(s, 1, k)) = n)
\* s.matches('\n').count()
matches_count(s) == breaks_before(s, Len(s))
\* s.rfind('\n'): the byte index of the last line feed.
rfind(s) ==
    IF \E k \in 1 .. Len(s) : s[k] = LF
    THEN LET k == CHOOSE j \in 1 .. Len(s) :
                     s[j] = LF /\ \A m \in (j + 1) .. Len(s) : s[m] # LF
         IN  Some(str_len(SubSeq(s, 1, k - 1)))
    ELSE None

\* CursorPosition, and its Default.
CursorPosition(o, l, c) == [offset |-> o, line |-> l, column |-> c]
CursorDefault == CursorPosition(0, 0, 0)

\* The view once its textarea is mounted: the caret at the start, both
\* cursor signals at their default, no event handled yet.  notified is
\* history: whether the latest event called on_cursor_move.
ViewMounted ==
    [sel |-> 0, cursor |-> CursorDefault, reported |-> CursorDefault,
     event |-> "mounted", notified |-> FALSE]

\* The position update_cursor computes from the textarea's value and
\* selection_start; the slice text[..selection_start] wants a char boundary.
update_cursor_panics(value, selection_start) ==
    ~is_char_boundary(value, selection_start)
new_position(value, selection_start) ==
    LET before == str_to(value, selection_start)
        line_no == matches_count(before)
        last_newline == IF rfind(before) = None THEN 0 ELSE rfind(before)[1] + 1
    IN  CursorPosition(selection_start, line_no, selection_start - last_newline)

\* An update_cursor that sets the signal and calls on_cursor_move whether
\* or not the position differs from the one held.
update_cursor_always_notifying(selection_start, ev) ==
    /\ Running
    /\ IF update_cursor_panics(text(bufs[1]), selection_start)
       THEN /\ ret' = "Panic"
            /\ view' = [view EXCEPT !.sel = selection_start, !.event = ev,
                                    !.notified = FALSE]
       ELSE LET p == new_position(text(bufs[1]), selection_start)
            IN  /\ ret' = "Unit"
                /\ view' = [sel |-> selection_start, cursor |-> p,
                            reported |-> p, event |-> ev, notified |-> TRUE]
    /\ UNCHANGED <<bufs, heap, edited>>

\* update_cursor with the caret at selection_start: the cursor signal is set
\* and on_cursor_move called when the position differs from the one held.
update_cursor(selection_start, ev) ==
    /\ Running
    /\ IF update_cursor_panics(text(bufs[1]), selection_start)
       THEN /\ ret' = "Panic"
            /\ view' = [view EXCEPT !.sel = selection_start, !.event = ev,
                                    !.notified = FALSE]
       ELSE LET p == new_position(text(bufs[1]), selection_start)
            IN  /\ ret' = "Unit"
                /\ view' = [sel |-> selection_start, cursor |-> p,
                            reported |-> IF view.cursor # p THEN p ELSE view.reported,
                            event |-> ev, notified |-> view.cursor # p]
    /\ UNCHANGED <<bufs, heap, edited>>

\* The caret is put at selection_start and the selectionchange handler runs.
handle_selection_change(selection_start) ==
    update_cursor(selection_start, "selectionchange")

\* A key that left the caret at selection_start is released.
handle_keyup(selection_start) == update_cursor(selection_start, "keyup")

\* The textarea's value became new_text, its caret selection_start: a new
\* Buffer is made of the text when it differs from the buffer's.
handle_input(new_text, selection_start) ==
    /\ Running
    /\ IF new_text # text(bufs[1])
       THEN from_str(1, new_text, filename(bufs[1]))
       ELSE UNCHANGED <<bufs, heap, ret, edited>>
    /\ view' = [view EXCEPT !.sel = selection_start, !.event = "input",
                            !.notified = FALSE]

\* Key::Tab goes down: the spaces are inserted into a clone of the buffer
\* at the caret, the clone replaces the app's buffer, and the cursor moves
\* right by the width of the tab on the line it was on.
handle_keydown ==
    LET current_offset == view.sel
        current_cursor == view.cursor
        new_cursor == CursorPosition(current_offset + TabWidth, current_cursor.line,
                                     current_cursor.column + TabWidth)
    IN  /\ insert(1, current_offset, Spaces)
        /\ view' = [sel |-> current_offset + TabWidth, cursor |-> new_cursor,
                    reported |-> new_cursor, event |-> "keydown",
                    notified |-> TRUE]

\* ------------------------------------------------------------ theme ----
\* core/themes.rs.  Of a Theme the model keeps the name, the foreground and
\* the syntax_colors table; the other colours are read by no modelled code.
TokenTypes == {"keyword", "string", "comment", "function", "type", "number", "bracket"}

\* Theme::default() and light_theme().
DefaultDark ==
    [name |-> "Default Dark", foreground |-> "#ABB2BF",
     syntax_colors |-> [keyword |-> "#C678DD", string |-> "#98C379",
                        comment |-> "#7F848E", function |-> "#61AFEF",
                        type |-> "#E5C07B"]]
light_theme ==
    [name |-> "Light", foreground |-> "#383A42",
     syntax_colors |-> [keyword |-> "#A626A4", string |-> "#50A14F",
                        comment |-> "#A0A1A7", function |-> "#4078F2",
                        type |-> "#C18401"]]
available_themes == {DefaultDark, light_theme}

\* The fields of Theme are public and the struct deserializes: a theme may
\* carry any table.  A custom theme stores under each name of its table a
\* colour of its own.
CustomColor == [keyword |-> "#010101", string |-> "#020202", comment |-> "#030303",
                function |-> "#040404", type |-> "#050505", number |-> "#060606",
                bracket |-> "#070707"]
CustomTheme(names) ==
    [name |-> "Custom", foreground |-> "#F0F0F0",
     syntax_colors |-> [n \in names |-> CustomColor[n]]]
Themes == available_themes \cup {CustomTheme(names) : names \in SUBSET TokenTypes}

\* The unwrap_or_else colours of get_color.
FallbackColor == [keyword |-> "#C678DD", string |-> "#98C379", comment |-> "#7F848E",
                  function |-> "#61AFEF", type |-> "#E5C07B", number |-> "#D19A66"]

\* A lookup that answers every name with the foreground when the table has
\* no entry for it, and with the entry otherwise.
get_color_table_or_foreground(theme, token_type) ==
    IF token_type \in DOMAIN theme.syntax_colors
    THEN theme.syntax_colors[token_type]
    ELSE theme.foreground

\* Theme::get_color
get_color(theme, token_type) ==
    IF token_type \in DOMAIN FallbackColor
    THEN IF token_type \in DOMAIN theme.syntax_colors
         THEN theme.syntax_colors[token_type]
         ELSE FallbackColor[token_type]
    ELSE theme.foreground

ThIdle == [theme |-> DefaultDark, token_type |-> "keyword", color |-> None]

\* th.color = th.theme.get_color(th.token_type)
call_get_color ==
    /\ th.color = None
    /\ th' = [th EXCEPT !.color = Some(get_color(th.theme, th.token_type))]

\* ------------------------------------------------------ highlighter -----
\* apps/code_editor/src/highlighter.rs.  The markup highlight returns is a
\* sequence of pieces: the opening tag of a span with its colour, the
\* closing tag of a span, or one character pushed as it is.
Quote == "\""
Open(color) == [k |-> "open", v |-> color]
Close == [k |-> "close", v |-> ""]
Ch(c) == [k |-> "char", v |-> c]
\* push_str(s)
Raw(s) == [i \in 1 .. Len(s) |-> Ch(s[i])]
\* format!("<span style=\"color: {}\">{}</span>", color, s)
Span(color, s) == <<Open(color)>> \o Raw(s) \o <<Close>>

Letters == {"a", "b", "c", "d", "e", "f", "g", "h", "i", "j", "k", "l", "m",
            "n", "o", "p", "q", "r", "s", "t", "u", "v", "w", "x", "y", "z"}
Digits == {"0", "1", "2", "3", "4", "5", "6", "7", "8", "9"}
\* The round brackets alone.
BracketsRound == {"(", ")"}
Brackets == {"(", ")", "{", "}", "[", "]"}
\* char::is_alphanumeric and char::is_whitespace
is_alphanumeric(c) == c \in Letters \cup Digits \cup {Eacute}
is_whitespace(c) == c \in {" ", LF}

\* SyntaxHighlighter::new: the keyword_patterns table.
keyword_patterns ==
    [rust |-> {
        <<"f", "n">>, <<"l", "e", "t">>, <<"m", "u", "t">>,
        <<"p", "u", "b">>, <<"i", "m", "p", "l">>,
        <<"s", "t", "r", "u", "c", "t">>, <<"e", "n", "u", "m">>,
        <<"t", "r", "a", "i", "t">>, <<"u", "s", "e">>, <<"m", "o", "d">>,
        <<"m", "a", "t", "c", "h">>, <<"i", "f">>, <<"e", "l", "s", "e">>,
        <<"f", "o", "r">>, <<"w", "h", "i", "l", "e">>,
        <<"l", "o", "o", "p">>, <<"r", "e", "t", "u", "r", "n">>,
        <<"s", "e", "l", "f">>, <<"s", "u", "p", "e", "r">>,
        <<"w", "h", "e", "r", "e">>},
     javascript |-> {
        <<"f", "u", "n", "c", "t", "i", "o", "n">>, <<"v", "a", "r">>,
        <<"l", "e", "t">>, <<"c", "o", "n", "s", "t">>,
        <<"c", "l", "a", "s", "s">>, <<"i", "m", "p", "o", "r", "t">>,
        <<"e", "x", "p", "o", "r", "t">>, <<"f", "r", "o", "m">>,
        <<"r", "e", "t", "u", "r", "n">>, <<"i", "f">>,
        <<"e", "l", "s", "e">>, <<"f", "o", "r">>,
        <<"w", "h", "i", "l", "e">>, <<"s", "w", "i", "t", "c", "h">>,
        <<"c", "a", "s", "e">>, <<"d", "e", "f", "a", "u", "l", "t">>,
        <<"b", "r", "e", "a", "k">>,
        <<"c", "o", "n", "t", "i", "n", "u", "e">>}]

\* SyntaxHighlighter::new(language, theme)
SyntaxHighlighter(language, theme) ==
    [language |-> language, theme |-> theme, keyword_patterns |-> keyword_patterns]
Languages == {"rust", "javascript", "plain"}

\* str::parse::<f64> on a word of letters, digits and underscores: decimal
\* digits, optionally an exponent of decimal digits, or one of the names
\* of the infinite and the undefined value.
AllDigits(w) == w # <<>> /\ \A i \in 1 .. Len(w) : w[i] \in Digits
parse_f64(w) ==
    \/ AllDigits(w)
    \/ \E k \in 2 .. (Len(w) - 1) :
          /\ w[k] = "e"
          /\ AllDigits(SubSeq(w, 1, k - 1))
          /\ AllDigits(SubSeq(w, k + 1, Len(w)))
    \/ w \in {<<"i", "n", "f">>, <<"n", "a", "n">>,
              <<"i", "n", "f", "i", "n", "i", "t", "y">>}

\* A classification that takes the keywords of every language, whatever
\* the language of the highlighter.
add_highlighted_word_any_language(h, word) ==
    IF \E l \in DOMAIN h.keyword_patterns : word \in h.keyword_patterns[l]
    THEN Span(get_color(h.theme, "keyword"), word)
    ELSE IF parse_f64(word)
    THEN Span(get_color(h.theme, "number"), word)
    ELSE Raw(word)

\* add_highlighted_word: what it pushes for the word.
add_highlighted_word(h, word) ==
    IF /\ h.language \in DOMAIN h.keyword_patterns
       /\ word \in h.keyword_patterns[h.language]
    THEN Span(get_color(h.theme, "keyword"), word)
    ELSE IF parse_f64(word)
    THEN Span(get_color(h.theme, "number"), word)
    ELSE Raw(word)

\* if !current_word.is_empty() { add_highlighted_word(..) }
flush(h, current_word) ==
    IF current_word # <<>> THEN add_highlighted_word(h, current_word) ELSE <<>>

\* str::trim
RECURSIVE trim_start(_)
trim_start(s) ==
    IF s # <<>> /\ is_whitespace(Head(s)) THEN trim_start(Tail(s)) ELSE s
RECURSIVE trim_end(_)
trim_end(s) ==
    IF s # <<>> /\ is_whitespace(s[Len(s)]) THEN trim_end(SubSeq(s, 1, Len(s) - 1)) ELSE s
\* A trim that leaves the whitespace at the start.
trim_end_only(s) == trim_end(s)
trim(s) == trim_end(trim_start(s))
\* s.starts_with("//")
starts_with_comment(s) == Len(s) >= 2 /\ s[1] = "/" /\ s[2] = "/"

\* &s[n..] for a boundary n.
str_from(s, n) ==
    SubSeq(s, (CHOOSE k \in 0 .. Len(s) : str_len(SubSeq(s, 1, k)) = n) + 1, Len(s))

Returned(out) == [state |-> "returned", value |-> out]
Panicked == [state |-> "panicked", value |-> <<>>]
Pending == [state |-> "pending", value |-> <<>>]

\* The while loop of highlight_line from chars[i] on, and the flush after
\* it.  i counts chars; the comment slice &line[i..] takes it for a count
\* of bytes and panics off a char boundary.
RECURSIVE scan(_, _, _, _, _, _)
scan(h, ln, i, result, in_string, current_word) ==
    IF i >= Len(ln)
    THEN Returned(result \o flush(h, current_word))
    ELSE LET c == ln[i + 1]
         IN  IF c = Quote
             THEN IF in_string
                  THEN scan(h, ln, i + 1,
                            result \o Span(get_color(h.theme, "string"),
                                           Append(current_word, c)),
                            FALSE, <<>>)
                  ELSE scan(h, ln, i + 1, result \o flush(h, current_word),
                            TRUE, <<c>>)
             ELSE IF c = "/" /\ i + 1 < Len(ln) /\ ln[i + 2] = "/" /\ ~in_string
             THEN IF is_char_boundary(ln, i)
                  THEN Returned(result \o flush(h, current_word)
                                  \o Span(get_color(h.theme, "comment"),
                                          str_from(ln, i)))
                  ELSE Panicked
             ELSE IF in_string
             THEN scan(h, ln, i + 1, result, in_string, Append(current_word, c))
             ELSE IF is_alphanumeric(c) \/ c = "_"
             THEN scan(h, ln, i + 1, result, in_string, Append(current_word, c))
             ELSE scan(h, ln, i + 1,
                       result \o flush(h, current_word)
                         \o (IF c \in Brackets
                             THEN Span(get_color(h.theme, "bracket"), <<c>>)
                             ELSE <<Ch(c)>>),
                       in_string, <<>>)

\* highlight_line
highlight_line(h, ln) ==
    IF starts_with_comment(trim(ln))
    THEN Returned(Span(get_color(h.theme, "comment"), ln))
    ELSE scan(h, ln, 0, <<>>, FALSE, <<>>)

\* text.split('\n'): the pieces between the line feeds, one more than
\* there are line feeds.
RECURSIVE split(_)
split(t) ==
    IF \E i \in 1 .. Len(t) : t[i] = LF
    THEN LET i == CHOOSE j \in 1 .. Len(t) :
                      t[j] = LF /\ \A m \in 1 .. (j - 1) : t[m] # LF
         IN  <<SubSeq(t, 1, i - 1)>> \o split(SubSeq(t, i + 1, Len(t)))
    ELSE <<t>>
\* The whole text as its only line.
split_never(t) == <<t>>

\* The for loop of highlight over lines[n + 1 ..], result so far in acc.
RECURSIVE highlight_loop(_, _, _, _)
highlight_loop(h, lines, n, acc) ==
    IF n >= Len(lines) THEN Returned(acc)
    ELSE LET highlighted_line == highlight_line(h, lines[n + 1])
         IN  IF highlighted_line.state = "panicked" THEN Panicked
             ELSE highlight_loop(h, lines, n + 1,
                                 acc \o highlighted_line.value \o <<Ch(LF)>>)

\* SyntaxHighlighter::highlight
highlight(h, txt) == highlight_loop(h, split(txt), 0, <<>>)

\* Longest text given to highlight, all texts up to it being tried.
HlLen == 3
HlAlphabet == {"i", "f", "n", "5", Quote, "/", " ", "(", "<", Eacute, LF}
RECURSIVE HlSeqs(_)
HlSeqs(n) ==
    IF n = 0 THEN {<<>>}
    ELSE LET shorter == HlSeqs(n - 1)
         IN  shorter \cup {Append(s, c) : s \in {t \in shorter : Len(t) = n - 1},
                                          c \in HlAlphabet}
\* Further texts: the scenarios of the documentation, and longer lines
\* with strings, comments and two-byte letters.
HlSamples == {
    <<"l", "e", "t", " ", "x", " ", "=", " ", "5", ";">>,
    <<"h", "e", " ", "s", "a", "i", "d", " ", Quote, "h", "i", Quote>>,
    <<"/", "/", " ", "c", "o", "m", "m", "e", "n", "t">>,
    <<" ", " ", "/", "/", " ", "x">>,
    <<"i", "f", Quote, "5", Quote>>,
    <<Quote, "i", "f", "(", "5", ")", "/", "/", Quote, "5">>,
    <<Quote, "a", Quote, Eacute, "/", "/">>,
    <<Eacute, "/", "/", LF, "i", "f">>,
    <<Quote, LF, Quote, "5", Quote>>,
    <<"a", "<", "b", ">">>,
    <<"5", "e", "5", " ", "i", "n", "f">>,
    <<"x", "/", "/", LF, "5">>,
    <<Eacute, "a", "/", "/">>,
    <<"i", "f", "/", "/", "i", "f", " ", Quote>>,
    <<"/", "*", "i", "f", "*", "/">>,
    <<"f", "(", "n", ")", "{", "[", "5", "]", "}">>}
HlTexts == HlSeqs(HlLen) \cup HlSamples

HlIdle == [language |-> "plain", theme |-> DefaultDark, text |-> <<>>, out |-> Pending]

\* hl.out = SyntaxHighlighter::new(hl.language, hl.theme).highlight(hl.text)
call_highlight ==
    /\ hl.out = Pending
    /\ hl' = [hl EXCEPT !.out = highlight(SyntaxHighlighter(hl.language, hl.theme),
                                          hl.text)]

\* A highlighter that is kept and called again. highlight takes &self: the
\* call reads the fields and leaves them as they are.
ShIdle == [self |-> SyntaxHighlighter("plain", DefaultDark), calls |-> <<>>]

\* A call that takes the keyword list of the highlighter's language out of
\* the table instead of reading it.
highlight_again_taking_keywords(txt) ==
    /\ sh' = [self |-> [sh.self EXCEPT !.keyword_patterns =
                            [l \in DOMAIN sh.self.keyword_patterns |->
                                IF l = sh.self.language THEN {}
                                ELSE sh.self.keyword_patterns[l]]],
              calls |-> Append(sh.calls,
                               [text |-> txt, out |-> highlight(sh.self, txt)])]

\* sh.self.highlight(txt), on the highlighter as the calls before left it
highlight_again(txt) ==
    /\ sh' = [self |-> sh.self,
              calls |-> Append(sh.calls,
                               [text |-> txt, out |-> highlight(sh.self, txt)])]

\* ---------------------------------------------------- the menu handler --
\* apps/code_editor/src/code_editor.rs.
\* EditorMenuHandler::default()
EditorMenuHandlerDefault ==
    [buffer_has_changes |-> FALSE, has_filename |-> FALSE,
     theme_is_light |-> FALSE, theme_is_dark |-> TRUE]

\* EditorMenuHandler::new(buffer_has_changes, has_filename, theme_is_light)
EditorMenuHandler(buffer_has_changes, has_filename, theme_is_light) ==
    LET new_handler == [EditorMenuHandlerDefault EXCEPT
                           !.buffer_has_changes = buffer_has_changes,
                           !.has_filename = has_filename]
    IN  IF theme_is_light
        THEN [new_handler EXCEPT !.theme_is_light = TRUE, !.theme_is_dark = FALSE]
        ELSE [new_handler EXCEPT !.theme_is_dark = TRUE, !.theme_is_light = FALSE]

\* The action ids handle_menu_action has an arm for, with the script each
\* arm evaluates.
MenuScripts ==
    [action_id \in {"file.new", "file.open", "file.save", "file.save_as",
                    "file.exit", "edit.cut", "edit.copy", "edit.paste",
                    "help.about"} |->
        CASE action_id = "file.new" -> "newFile()"
          [] action_id = "file.open" -> "openFile()"
          [] action_id = "file.save" -> "saveFile()"
          [] action_id = "file.save_as" -> "saveFileAs()"
          [] action_id = "file.exit" -> "window.close()"
          [] action_id = "edit.cut" -> "execCommand('cut')"
          [] action_id = "edit.copy" -> "execCommand('copy')"
          [] action_id = "edit.paste" -> "execCommand('paste')"
          [] OTHER -> "alert()"]
ThemeActions == {"view.theme.light", "view.theme.dark"}
MenuActions == DOMAIN MenuScripts \cup ThemeActions

\* A handler whose light arm sets its own flag and leaves the other one.
handle_menu_action_one_flag(h, action_id) ==
    CASE action_id = "view.theme.light" ->
            IF ~h.theme_is_light
            THEN [handler |-> [h EXCEPT !.theme_is_light = TRUE],
                  eval |-> Some("setTheme('light')")]
            ELSE [handler |-> h, eval |-> None]
      [] action_id = "view.theme.dark" ->
            IF ~h.theme_is_dark
            THEN [handler |-> [h EXCEPT !.theme_is_dark = TRUE],
                  eval |-> Some("setTheme('dark')")]
            ELSE [handler |-> h, eval |-> None]
      [] action_id \in DOMAIN MenuScripts ->
            [handler |-> h, eval |-> Some(MenuScripts[action_id])]
      [] OTHER -> [handler |-> h, eval |-> None]

\* handle_menu_action(&mut self, action_id): the handler it leaves and the
\* script it evaluates, if any.
handle_menu_action(h, action_id) ==
    CASE action_id = "view.theme.light" ->
            IF ~h.theme_is_light
            THEN [handler |-> [h EXCEPT !.theme_is_light = TRUE,
                                        !.theme_is_dark = FALSE],
                  eval |-> Some("setTheme('light')")]
            ELSE [handler |-> h, eval |-> None]
      [] action_id = "view.theme.dark" ->
            IF ~h.theme_is_dark
            THEN [handler |-> [h EXCEPT !.theme_is_dark = TRUE,
                                        !.theme_is_light = FALSE],
                  eval |-> Some("setTheme('dark')")]
            ELSE [handler |-> h, eval |-> None]
      [] action_id \in DOMAIN MenuScripts ->
            [handler |-> h, eval |-> Some(MenuScripts[action_id])]
      [] OTHER -> [handler |-> h, eval |-> None]

\* is_item_enabled(&self, item_id)
is_item_enabled(h, item_id) ==
    IF item_id = "file.save" THEN h.buffer_has_changes /\ h.has_filename ELSE TRUE

\* is_item_checked(&self, item_id)
is_item_checked(h, item_id) ==
    CASE item_id = "view.theme.light" -> Some(h.theme_is_light)
      [] item_id = "view.theme.dark" -> Some(h.theme_is_dark)
      [] OTHER -> None

\* A handler on its own: before is the handler the latest action found.
MenuOf(h) == [handler |-> h, action |-> None, eval |-> None, before |-> h]
MenuIdle == MenuOf(EditorMenuHandlerDefault)

\* menu.handler.handle_menu_action(action_id)
call_handle_menu_action(action_id) ==
    LET r == handle_menu_action(menu.handler, action_id)
    IN  menu' = [handler |-> r.handler, action |-> Some(action_id),
                 eval |-> r.eval, before |-> menu.handler]

\* ------------------------------------------------- the code editor app --
\* apps/code_editor/src/code_editor.rs, CodeEditor.  Its buffer signal is
\* the Buffer value 1 and its EditorView is the view above.
\* available_themes() as the Vec it is.
themes == <<DefaultDark, light_theme>>
\* name.contains(substring), for the names of the themes.
name_contains(name, substring) ==
    \/ substring = "Light" /\ name = "Light"
    \/ substring = "Dark" /\ name = "Default Dark"

\* The signals after the first render.  History: event is the app callback
\* or view event that ran last, dirty whether typing or Tab changed the
\* text since the document was opened or created, clicked the menu item of
\* the latest click with whether it was enabled and whether the click got
\* to handle_menu_action.
AppMounted ==
    [filename |-> None, language |-> Some("plaintext"),
     show_new_file_dialog |-> FALSE, current_theme_idx |-> 0,
     event |-> "mounted", dirty |-> FALSE,
     clicked |-> None, enabled |-> FALSE, reached |-> FALSE]
NoClick(a) == [a EXCEPT !.clicked = None, !.enabled = FALSE, !.reached = FALSE]

current_theme == themes[app.current_theme_idx + 1]

\* The handler the render gives the MenuBar.
menu_handler ==
    EditorMenuHandler(is_modified(bufs[1]), app.filename # None,
                      name_contains(current_theme.name, "Light"))

\* The language the render gives the EditorView: the call site names
\* buffer, theme and the two callbacks, so the optional prop is None.
language_prop == None
\* EditorView: the markup of the highlight layer.
highlighted_code ==
    LET lang == IF language_prop = None THEN "plain" ELSE language_prop[1]
    IN  highlight(SyntaxHighlighter(lang, current_theme), text(bufs[1]))

\* handle_new_file: the signals it leaves
handle_new_file(a) == [a EXCEPT !.show_new_file_dialog = TRUE]

\* A confirm that keeps the buffer.
handle_create_file_keeping_buffer(new_filename, new_language) ==
    /\ Running
    /\ app.show_new_file_dialog
    /\ app' = [NoClick(app) EXCEPT !.filename = Some(new_filename),
                                   !.language = Some(new_language),
                                   !.show_new_file_dialog = FALSE,
                                   !.event = "handle_create_file",
                                   !.dirty = FALSE]
    /\ UNCHANGED <<bufs, heap, ret, edited, view>>

\* handle_create_file, called by the dialog's Create button
handle_create_file(new_filename, new_language) ==
    /\ app.show_new_file_dialog
    /\ new(1)
    /\ app' = [NoClick(app) EXCEPT !.filename = Some(new_filename),
                                   !.language = Some(new_language),
                                   !.show_new_file_dialog = FALSE,
                                   !.event = "handle_create_file",
                                   !.dirty = FALSE]
    /\ UNCHANGED view

\* handle_cancel_new_file, called by the dialog's Cancel button
handle_cancel_new_file ==
    /\ Running
    /\ app.show_new_file_dialog
    /\ app' = [NoClick(app) EXCEPT !.show_new_file_dialog = FALSE,
                                   !.event = "handle_cancel_new_file"]
    /\ UNCHANGED <<bufs, heap, ret, edited, view>>

\* handle_opened_file, called when the file picked was read
handle_opened_file(content, name, lang) ==
    /\ from_str(1, content, Some(name))
    /\ app' = [NoClick(app) EXCEPT !.filename = Some(name),
                                   !.language = Some(lang),
                                   !.event = "handle_opened_file",
                                   !.dirty = FALSE]
    /\ UNCHANGED view

\* update_info, called when Save As wrote the file
update_info(name, lang) ==
    /\ Running
    /\ app' = [NoClick(app) EXCEPT !.filename = Some(name),
                                   !.language = Some(lang),
                                   !.event = "update_info"]
    /\ UNCHANGED <<bufs, heap, ret, edited, view>>

\* theme_handler: the signals it leaves
set_theme(a, theme_type) ==
    LET target_substring == IF theme_type = "light" THEN "Light" ELSE "Dark"
    IN  IF \E i \in 1 .. Len(themes) : name_contains(themes[i].name, target_substring)
        THEN [a EXCEPT !.current_theme_idx =
                 (CHOOSE i \in 1 .. Len(themes) :
                     /\ name_contains(themes[i].name, target_substring)
                     /\ \A j \in 1 .. (i - 1) :
                           ~name_contains(themes[j].name, target_substring)) - 1]
        ELSE a

\* window._editorActions: what the script a menu action evaluates does to
\* the signals at once.  The pickers of openFile and saveFileAs answer
\* later, through handle_opened_file and update_info.
editor_actions(a, script) ==
    CASE script = Some("newFile()") ->
            [handle_new_file(a) EXCEPT !.event = "handle_new_file"]
      [] script = Some("setTheme('light')") ->
            [set_theme(a, "light") EXCEPT !.event = "theme_handler"]
      [] script = Some("setTheme('dark')") ->
            [set_theme(a, "dark") EXCEPT !.event = "theme_handler"]
      [] OTHER -> [a EXCEPT !.event = "none"]

\* The items the menu bar nests one level down, which NestedSubmenu
\* renders; the others are rendered by the dropdown of MenuBar.
NestedItems == ThemeActions

\* A click on the item of a dropdown.  The dropdown's onclick returns at
\* once when the item is not enabled.  An item of a nested submenu has the
\* data-menu-id attribute, and the click listener that setupMenuEvents put
\* on it gives the id to window._handleMenuAction.
click(item_id) ==
    LET h == menu_handler
        is_enabled == is_item_enabled(h, item_id)
        reaches == is_enabled \/ item_id \in NestedItems
        r == handle_menu_action(h, item_id)
    IN  /\ Running
        /\ ~app.show_new_file_dialog
        /\ app' = [(IF reaches THEN editor_actions(app, r.eval)
                    ELSE [app EXCEPT !.event = "none"])
                   EXCEPT !.clicked = Some(item_id), !.enabled = is_enabled,
                          !.reached = reaches]
        /\ UNCHANGED <<bufs, heap, ret, edited, view>>

\* The text is typed over, the caret left at its end.
type(new_text) ==
    /\ handle_input(new_text, utf16_len(new_text))
    /\ app' = [NoClick(app) EXCEPT !.event = "handle_input",
                                   !.dirty = @ \/ new_text # text(bufs[1])]

\* Tab is pressed.
press_tab ==
    /\ handle_keydown
    /\ app' = [NoClick(app) EXCEPT !.event = "handle_keydown", !.dirty = TRUE]

\* ------------------------------------------------- the specifications ---
\* The app with an empty, unnamed buffer and the view mounted on it.
InitEditor ==
    /\ bufs = [h \in Handles |-> new_fields(h)]
    /\ heap = [a \in Addrs |-> IF a \in Handles THEN <<>> ELSE Free]
    /\ ret = "Self"
    /\ edited = [h \in Handles |-> FALSE]
    /\ last = [op |-> "new", who |-> 1, idx |-> 0, len |-> 0, text |-> <<>>,
               fname |-> None, pre |-> NoObs, rt |-> None,
               preOther |-> NoObs, shared |-> FALSE]
    /\ view = ViewMounted

Init ==
    /\ InitEditor
    /\ hl = HlIdle
    /\ th = ThIdle
    /\ sh = ShIdle
    /\ app = AppMounted
    /\ menu = MenuIdle

\* The Buffer methods touch neither the view nor the highlighter nor the
\* theme.
Rest == UNCHANGED <<view, hl, th, sh, app, menu>>

\* Calls on the first value, documents up to MaxLen characters.
Next ==
    \/ new(1) /\ Record("new", 1, 0, 0, <<>>, None, None) /\ Rest
    \/ \E content \in Contents, fname \in Filenames :
          /\ from_str(1, content, fname)
          /\ Record("from_str", 1, 0, 0, content, fname, None)
          /\ Rest
    \/ \E char_idx \in Idx, txt \in Contents :
          /\ Len(text(bufs[1])) + Len(txt) <= MaxLen
          /\ insert(1, char_idx, txt)
          /\ Record("insert", 1, char_idx, 0, txt, None,
                    IF Undoes(char_idx, txt) THEN last.rt ELSE None)
          /\ Rest
    \/ \E char_idx \in Idx, len \in Idx :
          /\ delete(1, char_idx, len)
          /\ Record("delete", 1, char_idx, len, <<>>, None,
                    IF char_idx + len <= Len(text(bufs[1]))
                    THEN Undo(1, char_idx, len) ELSE None)
          /\ Rest

Spec == Init /\ [][Next]_vars

\* Calls on both values and clones between them, documents up to SnapLen
\* characters.
NextSnap ==
    \/ \E h \in Handles : new(h) /\ RecordSnap("new", h) /\ Rest
    \/ \E h \in Handles, content \in SnapContents, fname \in Filenames :
          from_str(h, content, fname) /\ RecordSnap("from_str", h) /\ Rest
    \/ \E h \in Handles : clone(h) /\ RecordSnap("clone", h) /\ Rest
    \/ \E h \in Handles, char_idx \in Idx, txt \in SnapContents :
          /\ Len(text(bufs[h])) + Len(txt) <= SnapLen
          /\ insert(h, char_idx, txt)
          /\ RecordSnap("insert", h)
          /\ Rest
    \/ \E h \in Handles, char_idx \in Idx, len \in Idx :
          delete(h, char_idx, len) /\ RecordSnap("delete", h) /\ Rest

SpecSnap == Init /\ [][NextSnap]_vars

\* The events of the editor view, in any order: the caret moves, a key is
\* released, the text is typed over or pasted, Tab is pressed (while the
\* text and the column held are within ViewLen).
NextView ==
    \/ \E s \in 0 .. utf16_len(text(bufs[1])) :
          handle_selection_change(s) /\ UNCHANGED <<last, hl, th, sh, app, menu>>
    \/ \E s \in 0 .. utf16_len(text(bufs[1])) :
          handle_keyup(s) /\ UNCHANGED <<last, hl, th, sh, app, menu>>
    \/ \E new_text \in ViewTexts : \E s \in 0 .. utf16_len(new_text) :
          handle_input(new_text, s) /\ UNCHANGED <<last, hl, th, sh, app, menu>>
    \/ /\ Len(text(bufs[1])) <= ViewLen
       /\ view.cursor.column <= ViewLen
       /\ handle_keydown
       /\ UNCHANGED <<last, hl, th, sh, app, menu>>

SpecView == Init /\ [][NextView]_vars

\* A highlighter of any language and either built-in theme, given a text.
InitHl ==
    /\ InitEditor
    /\ hl \in {[language |-> l, theme |-> t, text |-> x, out |-> Pending] :
                  l \in Languages, t \in available_themes, x \in HlTexts}
    /\ th = ThIdle
    /\ sh = ShIdle
    /\ app = AppMounted
    /\ menu = MenuIdle

NextHl ==
    call_highlight
        /\ UNCHANGED <<bufs, heap, ret, edited, last, view, th, sh, app, menu>>

SpecHl == InitHl /\ [][NextHl]_vars

\* A theme with any table, asked for the colour of a token class or of
\* another name.
InitTheme ==
    /\ InitEditor
    /\ hl = HlIdle
    /\ th \in {[theme |-> t, token_type |-> n, color |-> None] :
                  t \in Themes, n \in TokenTypes \cup {"operator"}}
    /\ sh = ShIdle
    /\ app = AppMounted
    /\ menu = MenuIdle

NextTheme ==
    call_get_color
        /\ UNCHANGED <<bufs, heap, ret, edited, last, view, hl, sh, app, menu>>

SpecTheme == InitTheme /\ [][NextTheme]_vars

\* A highlighter of any language and either built-in theme, called up to
\* MaxCalls times on texts of CallTexts; no call follows one that panicked.
MaxCalls == 3
CallTexts ==
    {<<"i", "f">>, <<"5">>, <<Quote, "i", "f", Quote>>, <<"i", "f", "/", "/">>,
     <<Eacute, "/", "/">>}

InitCalls ==
    /\ InitEditor
    /\ hl = HlIdle
    /\ th = ThIdle
    /\ sh \in {[self |-> SyntaxHighlighter(l, t), calls |-> <<>>] :
                  l \in Languages, t \in available_themes}
    /\ app = AppMounted
    /\ menu = MenuIdle

NextCalls ==
    \E txt \in CallTexts :
        /\ Len(sh.calls) < MaxCalls
        /\ \A i \in 1 .. Len(sh.calls) : sh.calls[i].out # Panicked
        /\ highlight_again(txt)
        /\ UNCHANGED <<bufs, heap, ret, edited, last, view, hl, th, app, menu>>

SpecCalls == InitCalls /\ [][NextCalls]_vars

\* A menu handler, made by default or by new, given any sequence of menu
\* actions, one of them an id it has no arm for.
InitMenu ==
    /\ InitEditor
    /\ hl = HlIdle
    /\ th = ThIdle
    /\ sh = ShIdle
    /\ app = AppMounted
    /\ menu \in {MenuOf(h) : h \in {EditorMenuHandlerDefault} \cup
                    {EditorMenuHandler(c, f, l) : c, f, l \in BOOLEAN}}

NextMenu ==
    \E action_id \in MenuActions \cup {"edit.undo"} :
        /\ call_handle_menu_action(action_id)
        /\ UNCHANGED <<bufs, heap, ret, edited, last, view, hl, th, sh, app>>

SpecMenu == InitMenu /\ [][NextMenu]_vars

\* The code editor: the user types one of AppTexts over the document,
\* presses Tab (while the text and the column held are within ViewLen),
\* clicks a menu item, answers the new-file dialog, opens a file, saves
\* under a name.
AppTexts == {<<>>, <<"a">>, <<"f", "n">>}
NewFiles == {<<"untitled.rs", "rust">>, <<"notes", "plain">>}
OpenedFiles == {<<<<"f", "n">>, "f.rs", "rust">>, <<<<"a">>, "a.txt", "plaintext">>}
SavedAs == {<<"f.rs", "rust">>}

NextApp ==
    \/ \E new_text \in AppTexts :
          type(new_text) /\ UNCHANGED <<last, hl, th, sh, menu>>
    \/ /\ Len(text(bufs[1])) <= ViewLen
       /\ view.cursor.column <= ViewLen
       /\ press_tab
       /\ UNCHANGED <<last, hl, th, sh, menu>>
    \/ \E item_id \in MenuActions :
          click(item_id) /\ UNCHANGED <<last, hl, th, sh, menu>>
    \/ \E f \in NewFiles :
          handle_create_file(f[1], f[2]) /\ UNCHANGED <<last, hl, th, sh, menu>>
    \/ handle_cancel_new_file /\ UNCHANGED <<last, hl, th, sh, menu>>
    \/ \E f \in OpenedFiles :
          handle_opened_file(f[1], f[2], f[3])
              /\ UNCHANGED <<last, hl, th, sh, menu>>
    \/ \E f \in SavedAs :
          update_info(f[1], f[2]) /\ UNCHANGED <<last, hl, th, sh, menu>>

SpecApp == Init /\ [][NextApp]_vars

\* ----------------------------------------------------------- claims -----
\* C1: an insert at an offset within [0, length] succeeds; afterwards the
\* text is the first `offset` old characters, then the inserted text, then
\* the remaining old characters, and the buffer is modified (also when the
\* inserted text is empty, which leaves the text as it was).
C1_InsertSplices ==
    (last.op = "insert" /\ last.idx <= Len(last.pre.text)) =>
        LET before == last.pre.text
            after == text(bufs[last.who])
            t == last.text
            k == last.idx
        IN  /\ ret = "Ok"
            /\ Len(after) = Len(before) + Len(t)
            /\ \A i \in 1 .. k : after[i] = before[i]
            /\ \A i \in 1 .. Len(t) : after[k + i] = t[i]
            /\ \A i \in (k + 1) .. Len(before) : after[i + Len(t)] = before[i]
            /\ is_modified(bufs[last.who])
            /\ (t = <<>> => after = before)

\* An insert of a non-empty text strictly inside a document.
C1_Witness ==
    /\ last.op = "insert" /\ ret = "Ok"
    /\ 0 < last.idx /\ last.idx < Len(last.pre.text)
    /\ last.text # <<>>
    /\ text(bufs[1]) # last.pre.text

\* C2: a delete with offset + count <= length succeeds; afterwards the text
\* is the old text without the characters at [offset, offset + count), the
\* others kept in order, and the buffer is modified.
C2_DeleteRemovesRange ==
    (last.op = "delete" /\ last.idx + last.len <= Len(last.pre.text)) =>
        LET before == last.pre.text
            after == text(bufs[last.who])
            k == last.idx
            n == last.len
        IN  /\ ret = "Ok"
            /\ Len(after) = Len(before) - n
            /\ \A i \in 1 .. k : after[i] = before[i]
            /\ \A i \in (k + n + 1) .. Len(before) : after[i - n] = before[i]
            /\ is_modified(bufs[last.who])

\* A delete of a non-empty range with characters left on both sides.
C2_Witness ==
    /\ last.op = "delete" /\ ret = "Ok"
    /\ 0 < last.idx /\ 0 < last.len
    /\ last.idx + last.len < Len(last.pre.text)

\* C3: an insert with offset > length and a delete with offset + count >
\* length return the out-of-bounds error and leave the receiver as it was.
C3_OutOfRangeIsError ==
    (\/ last.op = "insert" /\ last.idx > Len(last.pre.text)
     \/ last.op = "delete" /\ last.idx + last.len > Len(last.pre.text)) =>
        /\ ret = "Err"
        /\ Observe(bufs[last.who]) = last.pre

\* C4: prior values are immutable: whatever insert or delete is called on
\* one value, successful or failing, the other value (a snapshot taken of
\* it, or the value it was cloned from) shows the same text, modified flag
\* and filename as before the call.
C4_SnapshotsUnaffected ==
    last.op \in {"insert", "delete"} =>
        Observe(bufs[Other(last.who)]) = last.preOther

\* A successful insert on a value that shared its rope with the other one,
\* which afterwards shows a different text.
C4_Witness ==
    /\ last.op = "insert" /\ ret = "Ok" /\ last.shared
    /\ text(bufs[last.who]) # text(bufs[Other(last.who)])
    /\ bufs[last.who].rope # bufs[Other(last.who)].rope

\* C5: round trip: a delete with offset + count <= length succeeds, and an
\* insert of the removed characters at the same offset right after it
\* succeeds and gives back the text from before the delete.
C5_DeleteInsertRoundTrip ==
    /\ (last.op = "delete" /\ last.idx + last.len <= Len(last.pre.text)) =>
           ret = "Ok"
    /\ (last.op = "insert" /\ last.rt # None) =>
           /\ ret = "Ok"
           /\ text(bufs[last.who]) = last.rt[1].orig

\* The insert that undoes a delete of a non-empty range strictly inside a
\* document.
C5_Witness ==
    /\ last.op = "insert" /\ last.rt # None /\ ret = "Ok"
    /\ last.text # <<>> /\ 0 < last.idx
    /\ last.idx + Len(last.text) < Len(last.rt[1].orig)
    /\ last.pre.text # last.rt[1].orig

\* C6: is_modified() is true exactly when an insert or delete has succeeded
\* on the buffer since it was constructed: false when fresh, true from the
\* first success on, not set by failing calls and never set back by an
\* insert or delete.
C6_ModifiedIffEdited ==
    /\ \A h \in Handles : is_modified(bufs[h]) = edited[h]
    /\ (last.op \in {"insert", "delete"} /\ last.pre.modified) =>
           is_modified(bufs[last.who])
    /\ (last.op \in {"insert", "delete"} /\ ret # "Ok") =>
           is_modified(bufs[last.who]) = last.pre.modified

\* The first successful delete on an unmodified buffer.
C6_Witness ==
    /\ last.op = "delete" /\ ret = "Ok"
    /\ ~last.pre.modified /\ is_modified(bufs[last.who])

\* C7: for every offset and count of the machine word, sums past the
\* largest word value included, delete ends in success or in the
\* out-of-bounds error, and it succeeds only when the true sum is within
\* the buffer.
C7_DeleteNeverPanics ==
    last.op = "delete" =>
        /\ ret \in {"Ok", "Err"}
        /\ (ret = "Ok" => last.idx + last.len <= Len(last.pre.text))

\* Number of line-break characters of a text.
CountLF(s) == Cardinality({i \in 1 .. Len(s) : s[i] = LF})

\* line(0) .. line(n - 1) of a value, one after the other.
RECURSIVE ConcatLines(_, _)
ConcatLines(b, n) ==
    IF n = 0 THEN <<>> ELSE ConcatLines(b, n - 1) \o line(b, n - 1)[1]

\* line(0) .. line(n - 1) of a value, joined with single line breaks.
RECURSIVE JoinLines(_, _)
JoinLines(b, n) ==
    IF n = 0 THEN <<>>
    ELSE IF n = 1 THEN line(b, 0)[1]
    ELSE JoinLines(b, n - 1) \o <<LF>> \o line(b, n - 1)[1]

\* C8, as stated: line(index) for index < line_count() is the line without
\* its terminator, so that the lines joined with single line breaks give
\* text(); for index >= line_count() it is the not-found result.
C8_LineWithoutTerminator ==
    LET b == bufs[1]
    IN  /\ \A idx \in Idx :
              IF idx < line_count(b)
              THEN line(b, idx) # None /\ CountLF(line(b, idx)[1]) = 0
              ELSE line(b, idx) = None
        /\ JoinLines(b, line_count(b)) = text(b)

\* C8, amended: line(index) for index < line_count() is the line with its
\* line break: every line but the last ends with its only line break, the
\* last has none, and the lines one after the other give text(); for
\* index >= line_count() it is the not-found result.
C8_LineWithTerminator ==
    LET b == bufs[1]
        n == line_count(b)
    IN  /\ \A idx \in Idx :
              IF idx < n
              THEN /\ line(b, idx) # None
                   /\ LET l == line(b, idx)[1]
                      IN  IF idx < n - 1
                          THEN l # <<>> /\ l[Len(l)] = LF /\ CountLF(l) = 1
                          ELSE CountLF(l) = 0
              ELSE line(b, idx) = None
        /\ ConcatLines(b, n) = text(b)

\* A document of two lines after an edit, whose first line is returned
\* with its line break and whose last line is not empty.
C8_Witness ==
    /\ last.op \in {"insert", "delete"} /\ ret = "Ok"
    /\ line_count(bufs[1]) = 2
    /\ line(bufs[1], 0) = Some(<<"a", LF>>)
    /\ line(bufs[1], 1) = Some(<<"a">>)
    /\ line(bufs[1], 2) = None

C10_Construction ==
    /\ last.op = "new" =>
           /\ text(bufs[last.who]) = <<>>
           /\ filename(bufs[last.who]) = None
           /\ ~is_modified(bufs[last.who])
    /\ last.op = "from_str" =>
           /\ text(bufs[last.who]) = last.text
           /\ filename(bufs[last.who]) = last.fname
           /\ ~is_modified(bufs[last.who])

\* A load of a non-empty content with a filename over a modified buffer.
C10_Witness ==
    /\ last.op = "from_str" /\ last.pre.modified
    /\ last.text # <<>> /\ last.fname # None
    /\ last.text # last.pre.text

\* The position the text and an offset in characters determine: the line
\* breaks before the offset, and the offset counted from just after the
\* last of them.
ExpectedPosition(t, off) ==
    LET breaks == {i \in 1 .. off : t[i] = LF}
        line_start == IF breaks = {} THEN 0
                      ELSE CHOOSE i \in breaks : \A j \in breaks : j <= i
    IN  CursorPosition(off, CountLF(SubSeq(t, 1, off)), off - line_start)

\* C11: whenever update_cursor has run (on a selection change or a key-up)
\* with the caret at an offset between 0 and the length of the text, it has
\* produced the position with that offset, the number of line breaks before
\* the offset as line, and the offset minus the index just after the last
\* line break before it as column.
C11_CursorRecomputed ==
    view.event \in {"selectionchange", "keyup"} =>
        /\ ret # "Panic"
        /\ view.cursor = ExpectedPosition(text(bufs[1]), view.sel)

\* C12: in every reachable state of the view the position held by the view
\* is the one last passed to on_cursor_move, its offset lies within the
\* current text, its line is the number of line breaks before the offset
\* and its column the offset minus the index just after the last of them.
C12_CursorConsistent ==
    Running =>
        /\ view.reported = view.cursor
        /\ view.cursor.offset <= Len(text(bufs[1]))
        /\ view.cursor = ExpectedPosition(text(bufs[1]), view.cursor.offset)

\* The highlighter of the state, and whether the text given to it is a
\* single line.
TheHighlighter == SyntaxHighlighter(hl.language, hl.theme)
OneLine == \A i \in 1 .. Len(hl.text) : hl.text[i] # LF
Color(class) == get_color(hl.theme, class)

\* C13: highlight returns a markup string for every text, language and
\* theme; it never panics.
C13_HighlightTotal == hl.out.state # "panicked"

\* C14: no markup-significant character of the text is in the returned
\* markup as it is: none of the characters pushed is <, >, & or ".
MarkupSignificant == {"<", ">", "&", Quote}
C14_MarkupEscaped ==
    hl.out.state = "returned" =>
        \A i \in 1 .. Len(hl.out.value) :
            hl.out.value[i].k = "char" => hl.out.value[i].v \notin MarkupSignificant

\* Does the line, without the whitespace around it, start with "//" ?
WholeLineComment(s) ==
    \E i \in 1 .. (Len(s) - 1) :
        /\ s[i] = "/" /\ s[i + 1] = "/"
        /\ \A j \in 1 .. (i - 1) : s[j] = " "

\* C15: a line that starts with "//" after trimming is returned as one
\* comment-coloured span holding the whole line, leading whitespace
\* included, and nothing else (but the line break highlight ends lines with).
C15_WholeLineComment ==
    (hl.out.state # "pending" /\ OneLine /\ WholeLineComment(hl.text)) =>
        /\ hl.out.state = "returned"
        /\ hl.out.value = <<Open(Color("comment"))>> \o Raw(hl.text)
                            \o <<Close, Ch(LF)>>

C15_Witness ==
    /\ hl.text = <<" ", "/", "/">>
    /\ hl.out = Returned(<<Open(Color("comment")), Ch(" "), Ch("/"), Ch("/"),
                           Close, Ch(LF)>>)

\* The words of a line: its maximal runs of letters, digits and underscores.
IsWordChar(c) == is_alphanumeric(c) \/ c = "_"
RunEnd(s, i) ==
    CHOOSE j \in i .. Len(s) :
        /\ \A m \in i .. j : IsWordChar(s[m])
        /\ j = Len(s) \/ ~IsWordChar(s[j + 1])
Styled(w) ==
    IF hl.language \in {"rust", "javascript"} /\ w \in keyword_patterns[hl.language]
    THEN Span(Color("keyword"), w)
    ELSE IF parse_f64(w) THEN Span(Color("number"), w)
    ELSE Raw(w)
\* A line without strings and comments from its i-th character on, word by
\* word; a bracket is a span of its own, any other character is itself.
RECURSIVE ByWords(_, _)
ByWords(s, i) ==
    IF i > Len(s) THEN <<>>
    ELSE IF IsWordChar(s[i])
    THEN Styled(SubSeq(s, i, RunEnd(s, i))) \o ByWords(s, RunEnd(s, i) + 1)
    ELSE (IF s[i] \in Brackets THEN Span(Color("bracket"), <<s[i]>>) ELSE <<Ch(s[i])>>)
           \o ByWords(s, i + 1)
RECURSIVE LinesByWords(_, _)
LinesByWords(lines, n) ==
    IF n = 0 THEN <<>>
    ELSE LinesByWords(lines, n - 1) \o ByWords(lines[n], 1) \o <<Ch(LF)>>

NoQuoteNoComment(s) ==
    /\ \A i \in 1 .. Len(s) : s[i] # Quote
    /\ \A i \in 1 .. (Len(s) - 1) : ~(s[i] = "/" /\ s[i + 1] = "/")
LetX5 == <<"l", "e", "t", " ", "x", " ", "=", " ", "5", ";">>

\* C16: in a text without a quote and without "//" every word is a keyword
\* span if the language of the highlighter has it as a keyword, else a
\* number span if it parses as a number, else it is pushed unstyled; a
\* language without a keyword table styles no keyword.  let x = 5; in rust
\* is the keyword let, the number 5, and x, =, ; unstyled.
C16_Words ==
    (hl.out.state # "pending" /\ NoQuoteNoComment(hl.text)) =>
        /\ hl.out.state = "returned"
        /\ hl.out.value = LinesByWords(split(hl.text), Len(split(hl.text)))
        /\ hl.language \notin {"rust", "javascript"} =>
              \A i \in 1 .. Len(hl.out.value) :
                  hl.out.value[i] # Open(Color("keyword"))
        /\ (hl.text = LetX5 /\ hl.language = "rust") =>
              hl.out.value = Span(Color("keyword"), <<"l", "e", "t">>)
                               \o Raw(<<" ", "x", " ", "=", " ">>)
                               \o Span(Color("number"), <<"5">>)
                               \o Raw(<<";", LF>>)

C16_Witness ==
    /\ hl.text = LetX5 /\ hl.language = "rust" /\ hl.theme = DefaultDark
    /\ hl.out.state = "returned"
    /\ hl.out.value[1] = Open("#C678DD")
    /\ hl.out.value[11] = Open("#D19A66")

\* The closed string literals of a line, each as <<opening quote, closing
\* quote>>: the quotes pair up from the left, up to a "//" outside of them.
\* open is the position of the quote that is waiting to be closed, or 0.
RECURSIVE Literals(_, _, _)
Literals(s, i, open) ==
    IF i > Len(s) THEN {}
    ELSE IF s[i] = Quote
    THEN IF open > 0 THEN {<<open, i>>} \cup Literals(s, i + 1, 0)
         ELSE Literals(s, i + 1, i)
    ELSE IF open = 0 /\ s[i] = "/" /\ i < Len(s) /\ s[i + 1] = "/" THEN {}
    ELSE Literals(s, i + 1, open)
HeSaidHi == <<"h", "e", " ", "s", "a", "i", "d", " ", Quote, "h", "i", Quote>>

\* C17: in a line that is not a whole-line comment every closed string
\* literal is returned as one string-coloured span holding both quotes and
\* what is between them, unchanged and not styled further; what precedes
\* the span is the rendering of the line up to the opening quote, a
\* pending word flushed; the line has as many string spans as literals.
\* In he said "hi" the span is "hi" and he said is unstyled.
C17_StringSpans ==
    (hl.out.state # "pending" /\ OneLine /\ ~WholeLineComment(hl.text)) =>
        /\ \A lit \in Literals(hl.text, 1, 0) :
              LET before == highlight_line(TheHighlighter,
                                           SubSeq(hl.text, 1, lit[1] - 1))
                  span == Span(Color("string"), SubSeq(hl.text, lit[1], lit[2]))
              IN  /\ hl.out.state = "returned"
                  /\ before.state = "returned"
                  /\ SubSeq(hl.out.value, 1, Len(before.value) + Len(span))
                       = before.value \o span
        /\ hl.out.state = "returned" =>
              Cardinality({i \in 1 .. Len(hl.out.value) :
                              hl.out.value[i] = Open(Color("string"))})
                = Cardinality(Literals(hl.text, 1, 0))
        /\ hl.text = HeSaidHi =>
              hl.out.value = Raw(<<"h", "e", " ", "s", "a", "i", "d", " ">>)
                               \o Span(Color("string"), <<Quote, "h", "i", Quote>>)
                               \o <<Ch(LF)>>

\* C18: the returned markup has as many line breaks as the text: the
\* highlighted lines are joined by line breaks and none follows the last.
C18_LineBreaksKept ==
    hl.out.state = "returned" =>
        Cardinality({i \in 1 .. Len(hl.out.value) : hl.out.value[i] = Ch(LF)})
          = CountLF(hl.text)

\* The markup after its first line break.
AfterFirstBreak(o) ==
    LET k == CHOOSE i \in 1 .. Len(o) :
                  o[i] = Ch(LF) /\ \A j \in 1 .. (i - 1) : o[j] # Ch(LF)
    IN  SubSeq(o, k + 1, Len(o))

\* C19: for a text of two lines a and b, when b highlighted on its own is
\* rendered, the text is rendered as well and what follows the rendering of
\* a and its line break is the rendering of b on its own.
C19_LinesIndependent ==
    (hl.out.state # "pending" /\ CountLF(hl.text) = 1) =>
        LET alone == highlight(TheHighlighter, split(hl.text)[2])
        IN  alone.state = "returned" =>
               /\ hl.out.state = "returned"
               /\ AfterFirstBreak(hl.out.value) = alone.value

\* The token classes the highlighter asks for.
HighlighterClasses == {"keyword", "string", "comment", "bracket", "number"}

\* C20 as stated: the colour of a class of the highlighter is the entry of
\* the theme's table under that name, and the theme's foreground when the
\* table has no entry under it.
C20_TableOrForeground ==
    (th.color # None /\ th.token_type \in HighlighterClasses) =>
        th.color = Some(IF th.token_type \in DOMAIN th.theme.syntax_colors
                        THEN th.theme.syntax_colors[th.token_type]
                        ELSE th.theme.foreground)

\* C20: the lookup returns a colour for every theme and name.  For keyword,
\* string, comment and number it is the entry of the theme's table under
\* that name, and without an entry the built-in colour of the class
\* (#C678DD, #98C379, #7F848E, #D19A66); for bracket it is the theme's
\* foreground, whether the table has an entry under that name or not.
C20_TableOrBuiltIn ==
    th.color # None =>
        /\ th.token_type \in {"keyword", "string", "comment", "number"} =>
              th.color = Some(IF th.token_type \in DOMAIN th.theme.syntax_colors
                              THEN th.theme.syntax_colors[th.token_type]
                              ELSE [keyword |-> "#C678DD", string |-> "#98C379",
                                    comment |-> "#7F848E",
                                    number |-> "#D19A66"][th.token_type])
        /\ th.token_type = "bracket" => th.color = Some(th.theme.foreground)

C20_Witness ==
    /\ th.theme = DefaultDark /\ th.token_type = "number"
    /\ th.color = Some("#D19A66")

\* The position of the first "//" of a line that is outside a string, or 0.
RECURSIVE CommentStart(_, _, _)
CommentStart(s, i, in_string) ==
    IF i > Len(s) THEN 0
    ELSE IF s[i] = Quote THEN CommentStart(s, i + 1, ~in_string)
    ELSE IF ~in_string /\ s[i] = "/" /\ i < Len(s) /\ s[i + 1] = "/" THEN i
    ELSE CommentStart(s, i + 1, in_string)

\* Is the i-th piece of the markup inside a span?
InSpan(o, i) ==
    \E j \in 1 .. (i - 1) :
        o[j].k = "open" /\ \A m \in (j + 1) .. (i - 1) : o[m].k = "char"

\* The markup of the only line of a one-line text: what highlight returned
\* without the line break it ends the line with.
LineMarkup == SubSeq(hl.out.value, 1, Len(hl.out.value) - 1)

\* C22: in a line that is not a whole-line comment and has a "//" outside
\* strings, the markup is the rendering of what precedes the first such
\* "//" (the pending word flushed), then one comment span holding the line
\* from that "//" to its end, and nothing more.  In a line without quotes
\* and without "//" every "/" is pushed outside of any span.
C22_InlineComment ==
    (hl.out.state # "pending" /\ OneLine /\ ~WholeLineComment(hl.text)) =>
        /\ CommentStart(hl.text, 1, FALSE) > 0 =>
              LET p == CommentStart(hl.text, 1, FALSE)
                  before == highlight_line(TheHighlighter, SubSeq(hl.text, 1, p - 1))
              IN  /\ hl.out.state = "returned"
                  /\ before.state = "returned"
                  /\ LineMarkup = before.value
                                    \o Span(Color("comment"),
                                            SubSeq(hl.text, p, Len(hl.text)))
        /\ NoQuoteNoComment(hl.text) =>
              /\ hl.out.state = "returned"
              /\ Cardinality({i \in 1 .. Len(LineMarkup) :
                                 LineMarkup[i] = Ch("/") /\ ~InSpan(LineMarkup, i)})
                   = Cardinality({i \in 1 .. Len(hl.text) : hl.text[i] = "/"})

\* C23: in a line without quotes and without "//", around every character
\* that is no letter, digit or underscore the markup is the rendering of
\* what precedes it (the pending word flushed), the character on its own,
\* and the rendering of what follows it; the character is a bracket span
\* when it is one of ( ) { } [ ], and pushed as it is otherwise.
C23_NonWordCharacters ==
    (hl.out.state # "pending" /\ OneLine /\ NoQuoteNoComment(hl.text)) =>
        /\ hl.out.state = "returned"
        /\ \A i \in 1 .. Len(hl.text) :
              ~IsWordChar(hl.text[i]) =>
                 LET c == hl.text[i]
                     before == highlight_line(TheHighlighter, SubSeq(hl.text, 1, i - 1))
                     after == highlight_line(TheHighlighter,
                                             SubSeq(hl.text, i + 1, Len(hl.text)))
                 IN  LineMarkup = before.value
                                    \o (IF c \in {"(", ")", "{", "}", "[", "]"}
                                        THEN <<Open(Color("bracket")), Ch(c), Close>>
                                        ELSE <<Ch(c)>>)
                                    \o after.value

C23_Witness ==
    /\ hl.text = <<"f", "(", "n", ")", "{", "[", "5", "]", "}">>
    /\ hl.language = "rust" /\ hl.theme = light_theme
    /\ hl.out.state = "returned"
    /\ SubSeq(hl.out.value, 2, 4) = <<Open("#383A42"), Ch("("), Close>>
    /\ SubSeq(hl.out.value, 9, 11) = <<Open("#383A42"), Ch("{"), Close>>

\* The characters of a markup: the contents of its spans and the characters
\* between them, in their order.
RECURSIVE Characters(_)
Characters(o) ==
    IF o = <<>> THEN <<>>
    ELSE (IF Head(o).k = "char" THEN <<Head(o).v>> ELSE <<>>) \o Characters(Tail(o))

\* C27: the characters of the markup of a line, span contents and unstyled
\* characters in output order, are the characters of the line.
C27_TextPreserved ==
    (hl.out.state # "pending" /\ OneLine) =>
        /\ hl.out.state = "returned"
        /\ Characters(LineMarkup) = hl.text

C24_ModifiedOnceEdited ==
    app.dirty =>
        /\ is_modified(bufs[1])
        /\ menu_handler.buffer_has_changes

\* C25: the markup the view renders is the one of a highlighter of the
\* app's language and theme: with the language "rust" the Rust keywords in
\* the buffer are keyword spans, with a language without keywords no word
\* is.
AppLanguage == IF app.language = None THEN "plain" ELSE app.language[1]
C25_HighlighterBound ==
    /\ highlighted_code = highlight(SyntaxHighlighter(AppLanguage, current_theme),
                                    text(bufs[1]))
    /\ (AppLanguage = "rust" /\ text(bufs[1]) = <<"f", "n">>) =>
          highlighted_code = Returned(Span(get_color(current_theme, "keyword"),
                                           <<"f", "n">>) \o <<Ch(LF)>>)
    /\ (AppLanguage \notin {"rust", "javascript"}
           /\ highlighted_code.state = "returned") =>
          \A i \in 1 .. Len(highlighted_code.value) :
              highlighted_code.value[i] # Open(get_color(current_theme, "keyword"))

\* C26: a key-up or selection-change event that computes a position calls
\* on_cursor_move exactly when it replaces the cursor held by a different
\* one, what it reports is the cursor it holds, and it does not call
\* on_cursor_move when the event before it was a cursor event with the same
\* selection.
CursorEvents == {"keyup", "selectionchange"}
C26_NotifiedIffChanged ==
    [][(view'.event \in CursorEvents /\ ret' # "Panic") =>
          /\ view'.notified <=> (view'.cursor # view.cursor)
          /\ view'.notified => view'.reported = view'.cursor
          /\ ~view'.notified => view'.reported = view.reported
          /\ (view.event \in CursorEvents /\ view'.sel = view.sel) => ~view'.notified
      ]_vars

C26_Witness ==
    /\ view.event = "keyup"
    /\ view.sel = 1
    /\ view.cursor = CursorPosition(1, 0, 1)
    /\ view.reported = view.cursor
    /\ ~view.notified

\* C28: Save is enabled exactly when the text has changes since it was
\* opened or created and the document has a filename, every other item
\* is enabled, and a click on an item that is not enabled does not get to
\* handle_menu_action.
C28_SaveGated ==
    /\ is_item_enabled(menu_handler, "file.save")
          <=> (app.dirty /\ app.filename # None)
    /\ \A item_id \in (MenuActions \cup {"edit.undo"}) \ {"file.save"} :
          is_item_enabled(menu_handler, item_id)
    /\ (app.clicked # None /\ ~app.enabled) => ~app.reached

\* C29: a menu handler has exactly one of its two theme flags set, and so
\* one check mark; the action of the theme that is set changes neither flag
\* and asks for no theme switch, the action of the other theme sets its
\* flag and asks for the switch, and any other action leaves both flags.
Flags(h) == <<h.theme_is_light, h.theme_is_dark>>
C29_OneThemeChecked ==
    /\ menu.handler.theme_is_light = ~menu.handler.theme_is_dark
    /\ is_item_checked(menu.handler, "view.theme.light")
          # is_item_checked(menu.handler, "view.theme.dark")
    /\ (menu.action = Some("view.theme.light") /\ menu.before.theme_is_light) =>
          menu.handler = menu.before /\ menu.eval = None
    /\ (menu.action = Some("view.theme.dark") /\ menu.before.theme_is_dark) =>
          menu.handler = menu.before /\ menu.eval = None
    /\ (menu.action = Some("view.theme.light") /\ ~menu.before.theme_is_light) =>
          Flags(menu.handler) = <<TRUE, FALSE>> /\ menu.eval = Some("setTheme('light')")
    /\ (menu.action = Some("view.theme.dark") /\ ~menu.before.theme_is_dark) =>
          Flags(menu.handler) = <<FALSE, TRUE>> /\ menu.eval = Some("setTheme('dark')")
    /\ (menu.action # None /\ menu.action[1] \notin ThemeActions) =>
          /\ Flags(menu.handler) = Flags(menu.before)
          /\ menu.eval \notin {Some("setTheme('light')"), Some("setTheme('dark')")}

C29_Witness ==
    /\ menu.action = Some("view.theme.light")
    /\ menu.before = EditorMenuHandler(TRUE, TRUE, FALSE)
    /\ menu.handler = EditorMenuHandler(TRUE, TRUE, TRUE)

\* C30: asking for a new file opens the dialog and leaves buffer, filename
\* and language; Create leaves an empty unmodified buffer, the filename
\* and the language entered and the dialog closed; Cancel closes the dialog
\* and leaves buffer, filename and language.
Document == <<Observe(bufs[1]), app.filename, app.language>>
C30_NewFileDialog ==
    [][/\ app'.event = "handle_new_file" =>
             app'.show_new_file_dialog /\ Document' = Document
       /\ app'.event = "handle_create_file" =>
             /\ \E f \in NewFiles :
                   Document' = <<[text |-> <<>>, modified |-> FALSE,
                                  filename |-> None],
                                 Some(f[1]), Some(f[2])>>
             /\ ~app'.show_new_file_dialog
       /\ app'.event = "handle_cancel_new_file" =>
             ~app'.show_new_file_dialog /\ Document' = Document
      ]_vars

C30_Witness ==
    /\ app.event = "handle_create_file"
    /\ app.filename = Some("untitled.rs")
    /\ app.language = Some("rust")
    /\ Observe(bufs[1]) = [text |-> <<>>, modified |-> FALSE, filename |-> None]
    /\ ~app.show_new_file_dialog
    /\ view.event = "keydown"

=============================================================================
